---- MODULE Spec2Model ----
(***************************************************************************)
(* Model of the two webhook notifier modules of Newapi-checkin:            *)
(*   src/dingtalk_notifier.py  (provider A, DingTalk)                      *)
(*   src/feishu_notifier.py    (provider B, Feishu)                        *)
(*                                                                         *)
(* Three specifications share the variables:                               *)
(*   SpecQuota   format_quota of both modules applied to an integer        *)
(*   SpecReport  build_checkin_report / build_checkin_card on a list       *)
(*   Spec        the send operations: a call up to requests.post, the      *)
(*               webhook's answer, and the return to the caller            *)
(***************************************************************************)
EXTENDS Integers, Sequences, FiniteSets, TLC

VARIABLES
    fq_in,          \* format_quota: the argument `quota`
    fq_dingtalk,    \* format_quota: result of dingtalk_notifier.format_quota
    fq_feishu,      \* format_quota: result of feishu_notifier.format_quota
    results,        \* report builders / send_checkin_notification: the `results` list
    report,         \* build_checkin_report: the list `lines` that is joined and returned
    card,           \* build_checkin_card: the returned card
    requests,       \* module global `requests`: TRUE = imported, FALSE = None
    environ,        \* os.environ: the four variables the modules read
    pc,             \* position of the one synchronous call: idle / posting / done
    call,           \* the running call: provider, operation, notifier fields
    request,        \* the HTTP POST in flight (url, payload), or NoRequest
    posts,          \* HTTP POSTs issued by the running call
    response,       \* what came back for the POST, or NoResponse
    ret             \* outcome of the call: "none", "True", "False" or "raised"

vars == <<fq_in, fq_dingtalk, fq_feishu, results, report, card,
          requests, environ, pc, call, request, posts, response, ret>>

quotaVars  == <<fq_in, fq_dingtalk, fq_feishu>>
reportVars == <<report, card>>
sendVars   == <<requests, environ, pc, call, request, posts, response, ret>>

(***************************************************************************)
(* Bounds of the model.                                                    *)
(***************************************************************************)
QuotaSpan  == 12    \* format_quota is applied to every integer this close to a pivot
MaxResults == 3     \* longest results list given to the report builders
MaxSendResults == 1 \* longest results list given to send_checkin_notification

NotComputed == "<not computed>"

(***************************************************************************)
(* format_quota.  quota / 1000 is Python's true division of two ints: the  *)
(* IEEE-754 double nearest the exact quotient.  ':.2f' prints the two-     *)
(* decimal value nearest that double's exact value (ties to even).         *)
(* Everything is computed on integers: the double is below, equal to or    *)
(* above the exact quotient v/d according to the remainder of v * 2^k      *)
(* modulo d, where k scales the quotient to a 53-bit mantissa.             *)
(***************************************************************************)
RECURSIVE Log2Floor(_)
Log2Floor(n) == IF n <= 1 THEN 0 ELSE 1 + Log2Floor(n \div 2)

\* (r * 2^k) % d, by doublings (ten at a time while k allows; d <= 1000000
\* keeps every product below 2^31)
RECURSIVE DoubleMod(_, _, _)
DoubleMod(r, k, d) ==
    IF k = 0 THEN r % d
    ELSE IF k >= 10 THEN DoubleMod((1024 * (r % d)) % d, k - 10, d)
    ELSE DoubleMod((2 * (r % d)) % d, k - 1, d)

\* -1, 0, 1: the double v / d is below, exactly, above the rational v/d  (v >= d > 0)
TrueDivCmp(v, d) ==
    LET k    == 52 - Log2Floor(v \div d)
        rem  == DoubleMod(v, k, d)
        odd  == 2 * DoubleMod(v, k - 1, d) >= d   \* last bit of the truncated mantissa
    IN  IF rem = 0 THEN 0
        ELSE IF 2 * rem < d THEN -1
        ELSE IF 2 * rem > d THEN 1
        ELSE IF odd THEN 1 ELSE -1

\* hundredths printed by f'{v / d:.2f}'  (d is 1000 or 1000000, v >= d)
Fixed2(v, d) ==
    LET u == d \div 100
        q == v \div u
        r == v % u
        c == TrueDivCmp(v, d)
    IN  IF 2 * r < u THEN q
        ELSE IF 2 * r > u THEN q + 1
        ELSE IF c < 0 THEN q
        ELSE IF c > 0 THEN q + 1
        ELSE IF q % 2 = 0 THEN q ELSE q + 1

\* the text of h hundredths with two decimals
Str2f(h) ==
    ToString(h \div 100) \o "." \o ToString((h % 100) \div 10) \o ToString(h % 10)

\* faulty variant: the quotient is cut to two decimals instead of rounded
dingtalk_format_quota_truncating(quota) ==
    IF quota >= 1000000 THEN Str2f(quota \div 10000) \o "M"
    ELSE IF quota >= 1000 THEN Str2f(quota \div 10) \o "K"
    ELSE ToString(quota)

dingtalk_format_quota(quota) ==
    IF quota >= 1000000 THEN Str2f(Fixed2(quota, 1000000)) \o "M"
    ELSE IF quota >= 1000 THEN Str2f(Fixed2(quota, 1000)) \o "K"
    ELSE ToString(quota)

\* faulty variant: the M band starts one digit too early
feishu_format_quota_M_from_100000(quota) ==
    IF quota >= 100000 THEN Str2f(Fixed2(quota, 1000000)) \o "M"
    ELSE IF quota >= 1000 THEN Str2f(Fixed2(quota, 1000)) \o "K"
    ELSE ToString(quota)

feishu_format_quota(quota) ==
    IF quota >= 1000000 THEN Str2f(Fixed2(quota, 1000000)) \o "M"
    ELSE IF quota >= 1000 THEN Str2f(Fixed2(quota, 1000)) \o "K"
    ELSE ToString(quota)

Around(c) == (c - QuotaSpan) .. (c + QuotaSpan)

\* the integers format_quota is applied to: both band edges, the spec's
\* examples, halfway cases of both bands, negatives and a value near 2^31
QuotaInputs ==
    Around(0) \cup ((1000 - QuotaSpan) .. (1125 + QuotaSpan)) \cup Around(1500)
    \cup Around(500000) \cup Around(999995) \cup Around(1005000)
    \cup Around(1015000) \cup Around(1125000) \cup Around(2000005000)
    \cup Around(-2000000)

(***************************************************************************)
(* Result records.  A record is a Python dict: a function whose domain is  *)
(* the set of keys present.  A message is the sequence of its characters;  *)
(* "ren" "zheng" stand for the two characters of the auth keyword (U+8BA4  *)
(* U+8BC1), "guo" "qi" for the two of the expiry keyword (U+8FC7 U+671F),  *)
(* "yi" and "shi" "bai" for other CJK characters.                          *)
(***************************************************************************)
None == "<None>"

Get(r, key, default) == IF key \in DOMAIN r THEN r[key] ELSE default

Msg_network  == <<"t", "i", "m", "e", "o", "u", "t">>                     \* unrelated
Msg_session  == <<"S", "e", "s", "s", "i", "o", "n", " ", "yi", "guo", "qi">>
Msg_SESSION  == <<"S", "E", "S", "S", "I", "O", "N">>
Msg_auth     == <<"ren", "zheng", "shi", "bai">>
Msg_expired  == <<"yi", "guo", "qi">>
Msg_nearmiss == <<"s", "e", "s", "s", "i", "o", " ", "zheng", "ren", "qi", "guo">>

KW_session == <<"s", "e", "s", "s", "i", "o", "n">>
KW_auth    == <<"ren", "zheng">>
KW_expired == <<"guo", "qi">>

DefaultFailMessage == <<"wei", "zhi", "cuo", "wu">>    \* the default of line 220
DefaultOkMessage   == <<"cheng", "gong">>              \* the default of line 208
DefaultName        == "<unknown account>"              \* the default of lines 204, 219

\* str.lower(), character by character
LowerChar(c) ==
    CASE c = "S" -> "s" [] c = "E" -> "e" [] c = "I" -> "i"
      [] c = "O" -> "o" [] c = "N" -> "n" [] OTHER -> c

lower(s) == [i \in 1 .. Len(s) |-> LowerChar(s[i])]

\* Python's `sub in s` on strings
Contains(sub, s) ==
    \E i \in 1 .. (Len(s) - Len(sub) + 1) : SubSeq(s, i, i + Len(sub) - 1) = sub

\* truthiness of r.get(key): an absent key gives None (falsy), a bool is
\* truthy when True, an int when non-zero
TruthyBool(r, key) == key \in DOMAIN r /\ r[key] = TRUE
TruthyInt(r, key)  == key \in DOMAIN r /\ r[key] # 0

FailMessages == {Msg_network, Msg_session, Msg_SESSION, Msg_auth, Msg_expired, Msg_nearmiss}

\* success records: with or without the optional keys
SuccessRecords ==
    { [name |-> "main", success |-> TRUE, message |-> DefaultOkMessage],
      [name |-> "main", success |-> TRUE, message |-> DefaultOkMessage,
       quota_awarded |-> 500000, checkin_count |-> 15],
      [name |-> "backup", success |-> TRUE, message |-> Msg_session,
       quota_awarded |-> 1500, session_expired |-> TRUE],
      [name |-> "backup", success |-> TRUE, message |-> Msg_auth,
       quota_awarded |-> 0, checkin_count |-> 0] }

\* failure records: every message, with the flag absent, false or true
FailRecords ==
    { [name |-> "test", success |-> FALSE, message |-> m] : m \in FailMessages }
    \cup { [name |-> "test", success |-> FALSE, message |-> m, session_expired |-> b] :
             m \in {Msg_network, Msg_nearmiss, Msg_session}, b \in BOOLEAN }
    \cup { [name |-> "test", success |-> FALSE, session_expired |-> FALSE] }

ReportRecords == SuccessRecords \cup FailRecords

RECURSIVE SeqsUpTo(_, _)
SeqsUpTo(S, n) ==
    IF n = 0 THEN {<<>>}
    ELSE LET shorter == SeqsUpTo(S, n - 1)
         IN  shorter \cup {Append(s, x) : s \in {t \in shorter : Len(t) = n - 1}, x \in S}

ExecutionTime == "2026-01-01 08:00:00"

\* [r for r in results if r.get('success')] and its complement
success_list(rs) == SelectSeq(rs, LAMBDA r : TruthyBool(r, "success"))
fail_list(rs)    == SelectSeq(rs, LAMBDA r : ~TruthyBool(r, "success"))

(***************************************************************************)
(* dingtalk_notifier.build_checkin_report.  The value is the list `lines`  *)
(* (the return value joins it with newlines).  A line is a tuple: the name *)
(* of its literal text first, then the values formatted into it.           *)
(***************************************************************************)
\* the condition of line 222, on the row's message (default of line 220)
RowIsExpired(r) ==
    LET message == Get(r, "message", DefaultFailMessage)
    IN  \/ TruthyBool(r, "session_expired")
        \/ Contains(KW_session, lower(message))
        \/ Contains(KW_auth, message)
        \/ Contains(KW_expired, message)

\* faulty variant: the footer's test forgets .lower()
FooterIsExpired_case_sensitive(r) ==
    LET message == Get(r, "message", <<>>)
    IN  \/ TruthyBool(r, "session_expired")
        \/ Contains(KW_session, message)
        \/ Contains(KW_auth, message)
        \/ Contains(KW_expired, message)

\* the condition of lines 243-246 (default message '')
FooterIsExpired(r) ==
    LET message == Get(r, "message", <<>>)
    IN  \/ TruthyBool(r, "session_expired")
        \/ Contains(KW_session, lower(message))
        \/ Contains(KW_auth, message)
        \/ Contains(KW_expired, message)

SuccessRow(r) ==
    LET name      == Get(r, "name", DefaultName)
        quota     == Get(r, "quota_awarded", 0)
        quota_str == IF quota # 0 THEN "+" \o dingtalk_format_quota(quota) ELSE "-"
        detail    == IF TruthyInt(r, "checkin_count")
                     THEN <<"checked_days", r.checkin_count>>
                     ELSE <<"text", Get(r, "message", DefaultOkMessage)>>
    IN  <<"success_row", name, quota_str, detail>>

FailRow(r) ==
    LET name    == Get(r, "name", DefaultName)
        message == Get(r, "message", DefaultFailMessage)
    IN  <<"fail_row", name, IF RowIsExpired(r) THEN <<"WARN", " ">> \o message ELSE message>>

\* faulty variant: the two tests in the other order
SummaryLine_fail_first(rs) ==
    LET total         == Len(rs)
        success_count == Len(success_list(rs))
        fail_count    == Len(fail_list(rs))
    IN  IF success_count = 0 THEN <<"summary_all_fail", fail_count, total>>
        ELSE IF fail_count = 0 THEN <<"summary_all_success", success_count, total>>
        ELSE <<"summary_mixed", success_count, fail_count>>

SummaryLine(rs) ==
    LET total         == Len(rs)
        success_count == Len(success_list(rs))
        fail_count    == Len(fail_list(rs))
    IN  IF fail_count = 0 THEN <<"summary_all_success", success_count, total>>
        ELSE IF success_count = 0 THEN <<"summary_all_fail", fail_count, total>>
        ELSE <<"summary_mixed", success_count, fail_count>>

build_checkin_report(rs, execution_time) ==
    LET ok   == success_list(rs)
        bad  == fail_list(rs)
        head == << <<"title">>, <<"">>, <<"execution_time", execution_time>>,
                   <<"">>, <<"---">>, <<"">> >>
        okSection ==
            IF ok # <<>>
            THEN << <<"success_heading", Len(ok)>>, <<"">>,
                    <<"success_table_head">>, <<"success_table_rule">> >>
                 \o [i \in 1 .. Len(ok) |-> SuccessRow(ok[i])] \o << <<"">> >>
            ELSE <<>>
        badSection ==
            IF bad # <<>>
            THEN << <<"fail_heading", Len(bad)>>, <<"">>,
                    <<"fail_table_head">>, <<"fail_table_rule">> >>
                 \o [i \in 1 .. Len(bad) |-> FailRow(bad[i])] \o << <<"">> >>
            ELSE <<>>
        expired_accounts == SelectSeq(bad, FooterIsExpired)
        footer == IF expired_accounts # <<>>
                  THEN << <<"">>, <<"session_warning">> >> ELSE <<>>
    IN  head \o okSection \o badSection
        \o << <<"---">>, <<"">>, SummaryLine(rs) >> \o footer

(***************************************************************************)
(* feishu_notifier: _build_summary_title, _build_header_template and       *)
(* build_checkin_card.                                                     *)
(***************************************************************************)
build_summary_title(success_count, fail_count) ==
    IF fail_count = 0 THEN <<"title_all_success", success_count>>
    ELSE IF success_count = 0 THEN <<"title_all_fail", fail_count>>
    ELSE <<"title_mixed", success_count, fail_count>>

\* faulty variant: the two tests in the other order
build_header_template_fail_first(success_count, fail_count) ==
    IF success_count = 0 THEN "red"
    ELSE IF fail_count = 0 THEN "green"
    ELSE "orange"

build_header_template(success_count, fail_count) ==
    IF fail_count = 0 THEN "green"
    ELSE IF success_count = 0 THEN "red"
    ELSE "orange"

CardSuccessLine(r) ==
    LET name          == Get(r, "name", DefaultName)
        quota         == Get(r, "quota_awarded", 0)
        checkin_count == Get(r, "checkin_count", 0)
        quota_text    == IF quota # 0 THEN "+" \o feishu_format_quota(quota) ELSE "-"
    IN  <<"success_item", name, quota_text, checkin_count>>

CardFailLine(r) ==
    <<"fail_item", Get(r, "name", DefaultName), Get(r, "message", DefaultFailMessage)>>

build_checkin_card(rs, execution_time) ==
    LET ok            == success_list(rs)
        bad           == fail_list(rs)
        success_count == Len(ok)
        fail_count    == Len(bad)
        first == << [tag |-> "markdown",
                     content |-> << <<"execution_time", execution_time>>,
                                    <<"total", Len(rs)>> >>],
                    [tag |-> "hr"] >>
        okPart ==
            IF ok # <<>>
            THEN << [tag |-> "markdown",
                     content |-> << <<"success_heading", success_count>> >>
                                 \o [i \in 1 .. Len(ok) |-> CardSuccessLine(ok[i])]] >>
            ELSE <<>>
        badPart ==
            IF bad # <<>>
            THEN (IF ok # <<>> THEN << [tag |-> "hr"] >> ELSE <<>>)
                 \o << [tag |-> "markdown",
                        content |-> << <<"fail_heading", fail_count>> >>
                                    \o [i \in 1 .. Len(bad) |-> CardFailLine(bad[i])]] >>
            ELSE <<>>
        last == << [tag |-> "hr"],
                   [tag |-> "note",
                    elements |-> << [tag |-> "plain_text",
                                     content |-> <<"summary", success_count, fail_count>>] >>] >>
    IN  [config   |-> [wide_screen_mode |-> TRUE],
         header   |-> [template |-> build_header_template(success_count, fail_count),
                       title    |-> [tag |-> "plain_text",
                                     content |-> build_summary_title(success_count, fail_count)]],
         elements |-> first \o okPart \o badPart \o last]

(***************************************************************************)
(* Values of the variables a specification does not use.                   *)
(***************************************************************************)
NoRequest == [url |-> <<>>, payload |-> <<>>]
NoCall    == [provider |-> "none", op |-> "none", webhook_url |-> "", secret |-> None]
NoResponse == [kind |-> "none"]

QuotaAtRest ==
    fq_in = 0 /\ fq_dingtalk = NotComputed /\ fq_feishu = NotComputed

NoReport == <<>>                  \* build_checkin_report not yet called
NoCard   == [tag |-> "no card"]   \* build_checkin_card not yet called

ReportAtRest ==
    report = NoReport /\ card = NoCard

SendAtRest ==
    /\ requests = TRUE
    /\ environ = [DINGTALK_WEBHOOK |-> None, DINGTALK_SECRET |-> None,
                  FEISHU_WEBHOOK |-> None, FEISHU_SECRET |-> None]
    /\ pc = "idle" /\ call = NoCall /\ request = NoRequest /\ posts = 0
    /\ response = NoResponse /\ ret = "none"

(***************************************************************************)
(* SpecQuota: format_quota of both modules on one integer.                 *)
(***************************************************************************)
InitQuota ==
    /\ fq_in \in QuotaInputs
    /\ fq_dingtalk = NotComputed /\ fq_feishu = NotComputed
    /\ results = <<>> /\ ReportAtRest /\ SendAtRest

FormatQuota ==
    /\ fq_dingtalk = NotComputed
    /\ fq_dingtalk' = dingtalk_format_quota(fq_in)
    /\ fq_feishu' = feishu_format_quota(fq_in)
    /\ UNCHANGED <<fq_in, results, reportVars, sendVars>>

NextQuota == FormatQuota

SpecQuota == InitQuota /\ [][NextQuota]_vars

(***************************************************************************)
(* SpecReport: the two report builders on one results list.                *)
(***************************************************************************)
InitReport ==
    /\ results \in SeqsUpTo(ReportRecords, MaxResults)
    /\ ReportAtRest /\ QuotaAtRest /\ SendAtRest

BuildCheckinReport ==
    /\ report = NoReport
    /\ report' = build_checkin_report(results, ExecutionTime)
    /\ UNCHANGED <<results, card, quotaVars, sendVars>>

BuildCheckinCard ==
    /\ card = NoCard
    /\ card' = build_checkin_card(results, ExecutionTime)
    /\ UNCHANGED <<results, report, quotaVars, sendVars>>

NextReport == BuildCheckinReport \/ BuildCheckinCard

SpecReport == InitReport /\ [][NextReport]_vars

(***************************************************************************)
(* The send operations.                                                    *)
(*                                                                         *)
(* Strings of the environment: an unset variable is None, a set one is its *)
(* text.  BadSecret is a text str.encode('utf-8') rejects (a lone          *)
(* surrogate, which os.environ yields for a byte that is not UTF-8).       *)
(***************************************************************************)
WebhookUrl == "https://hook.example/robot/send?access_token=t"
GoodSecret == "SECsecret"
BadSecret  == "<lone surrogate>"

Urls    == {"", WebhookUrl}                       \* webhook_url of a notifier
Secrets == {None, "", GoodSecret, BadSecret}      \* secret of a notifier
Clocks  == {1700000499, 1700001500}               \* time.time(), in milliseconds

\* Python truthiness of an Optional[str]
TruthyStr(x) == x \notin {None, ""}

\* os.environ.get(key, '')
EnvGet(key) == IF environ[key] = None THEN "" ELSE environ[key]

\* the two records send_checkin_notification is called with
SendRecords ==
    { [name |-> "main", success |-> TRUE, message |-> DefaultOkMessage,
       quota_awarded |-> 500000, checkin_count |-> 15],
      [name |-> "test", success |-> FALSE, message |-> Msg_session,
       session_expired |-> TRUE] }

SendResultLists == SeqsUpTo(SendRecords, MaxSendResults)

\* hmac.new(key, msg, sha256).digest(): a function of key and message
hmac_sha256(key, msg) == <<"hmac_sha256", key, msg>>

\* str.encode('utf-8') raises UnicodeEncodeError on BadSecret
EncodeRaises(secret) == secret = BadSecret

(***************************************************************************)
(* DingTalkNotifier._get_sign and _get_url.  A URL is the tuple of the     *)
(* parts the f-string joins.                                               *)
(***************************************************************************)
DingTalk_get_sign(secret, now) ==
    LET timestamp == ToString(now)          \* str(round(time.time() * 1000))
        sign == <<"quote_plus", <<"b64encode",
                    hmac_sha256(secret, <<timestamp, "\n", secret>>)>> >>
    IN  <<timestamp, sign>>

\* faulty variant: signs whenever the secret is not None
DingTalk_get_url_signs_empty(webhook_url, secret, now) ==
    IF secret # None
    THEN <<webhook_url, "&timestamp=", DingTalk_get_sign(secret, now)[1],
           "&sign=", DingTalk_get_sign(secret, now)[2]>>
    ELSE <<webhook_url>>

DingTalk_get_url(webhook_url, secret, now) ==
    IF TruthyStr(secret)
    THEN <<webhook_url, "&timestamp=", DingTalk_get_sign(secret, now)[1],
           "&sign=", DingTalk_get_sign(secret, now)[2]>>
    ELSE <<webhook_url>>

\* _get_url raises when _get_sign cannot encode the secret
DingTalk_get_url_raises(secret) == TruthyStr(secret) /\ EncodeRaises(secret)

(***************************************************************************)
(* FeishuNotifier._build_auth_fields: the dict merged into the payload.    *)
(***************************************************************************)
EmptyDict == [k \in {} |-> None]

Feishu_build_auth_fields(secret, now) ==
    IF ~TruthyStr(secret) THEN EmptyDict
    ELSE LET timestamp == ToString(now \div 1000)      \* str(int(time.time()))
         IN  [timestamp |-> timestamp,
              sign |-> <<"b64encode",
                         hmac_sha256(secret, <<timestamp, "\n", secret>>)>>]

Feishu_build_auth_fields_raises(secret) == TruthyStr(secret) /\ EncodeRaises(secret)

\* dict.update: the keys of `more` replace those of `data`
Update(data, more) == more @@ data

(***************************************************************************)
(* requests.post(url, ...).  A URL without a scheme makes requests raise   *)
(* MissingSchema before anything is sent; otherwise the POST goes out and  *)
(* the call waits for its outcome.                                         *)
(***************************************************************************)
UrlHasScheme(url) == url[1] # ""

\* the call ends with `value` without waiting for a webhook
Finish(c, rs, value) ==
    /\ pc' = "done"
    /\ call' = c
    /\ results' = rs
    /\ ret' = value
    /\ request' = NoRequest
    /\ posts' = 0
    /\ response' = NoResponse
    /\ UNCHANGED <<requests, environ, quotaVars, reportVars>>

\* the POST goes out
Post(c, rs, url, data) ==
    /\ pc' = "posting"
    /\ call' = c
    /\ results' = rs
    /\ request' = [url |-> url, payload |-> data]
    /\ posts' = posts + 1
    /\ response' = NoResponse
    /\ ret' = "none"
    /\ UNCHANGED <<requests, environ, quotaVars, reportVars>>

\* DingTalkNotifier._send up to the return of requests.post (lines 132-135)
DingTalk_send(c, rs, data, now) ==
    IF DingTalk_get_url_raises(c.secret)
    THEN Finish(c, rs, "False")                       \* except Exception: return False
    ELSE LET url == DingTalk_get_url(c.webhook_url, c.secret, now)
         IN  IF UrlHasScheme(url) THEN Post(c, rs, url, data)
             ELSE Finish(c, rs, "False")              \* MissingSchema, caught

\* FeishuNotifier._send up to the return of requests.post (lines 70-72)
Feishu_send(c, rs, data) ==
    IF UrlHasScheme(<<c.webhook_url>>) THEN Post(c, rs, <<c.webhook_url>>, data)
    ELSE Finish(c, rs, "False")                       \* MissingSchema, caught

DingTalkAt == [atMobiles |-> <<>>, isAtAll |-> FALSE]

\* DingTalkNotifier.send_text(content)
DingTalk_send_text_body(c, rs, content, now) ==
    IF ~requests THEN Finish(c, rs, "False")
    ELSE DingTalk_send(c, rs, [msgtype |-> "text", text |-> [content |-> content],
                               at |-> DingTalkAt], now)

\* DingTalkNotifier.send_markdown(title, text)
DingTalk_send_markdown_body(c, rs, title, text, now) ==
    IF ~requests THEN Finish(c, rs, "False")
    ELSE DingTalk_send(c, rs, [msgtype |-> "markdown",
                               markdown |-> [title |-> title, text |-> text],
                               at |-> DingTalkAt], now)

\* FeishuNotifier.send_text(content)
Feishu_send_text_body(c, rs, content, now) ==
    IF ~requests THEN Finish(c, rs, "False")
    ELSE IF Feishu_build_auth_fields_raises(c.secret)
    THEN Finish(c, rs, "raised")                      \* outside any try
    ELSE Feishu_send(c, rs, Update([msg_type |-> "text", content |-> [text |-> content]],
                                   Feishu_build_auth_fields(c.secret, now)))

\* FeishuNotifier.send_interactive_card(card)
Feishu_send_interactive_card_body(c, rs, crd, now) ==
    IF ~requests THEN Finish(c, rs, "False")
    ELSE IF Feishu_build_auth_fields_raises(c.secret)
    THEN Finish(c, rs, "raised")                      \* outside any try
    ELSE Feishu_send(c, rs, Update([msg_type |-> "interactive", card |-> crd],
                                   Feishu_build_auth_fields(c.secret, now)))

Notifier(provider, op, webhook_url, secret) ==
    [provider |-> provider, op |-> op, webhook_url |-> webhook_url, secret |-> secret]

\* the title of lines 281-289
DingTalk_title(rs) ==
    LET success_count == Len(success_list(rs))
        fail_count    == Len(fail_list(rs))
    IN  IF fail_count = 0 THEN <<"title_success", success_count>>
        ELSE IF success_count = 0 THEN <<"title_fail", fail_count>>
        ELSE <<"title_done", success_count, fail_count>>

(***************************************************************************)
(* The operations a caller can start, each up to its return or its POST.   *)
(***************************************************************************)
dingtalk_send_text ==
    /\ pc = "idle"
    /\ \E u \in Urls, s \in Secrets, now \in Clocks :
          DingTalk_send_text_body(Notifier("dingtalk", "send_text", u, s), <<>>, "hello", now)

dingtalk_send_markdown ==
    /\ pc = "idle"
    /\ \E u \in Urls, s \in Secrets, now \in Clocks :
          DingTalk_send_markdown_body(Notifier("dingtalk", "send_markdown", u, s), <<>>,
                                      "title", "text", now)

\* faulty variant: reads the other module's webhook variable
dingtalk_send_checkin_notification_other_variable ==
    /\ pc = "idle"
    /\ \E rs \in SendResultLists, now \in Clocks :
          LET webhook_url == EnvGet("FEISHU_WEBHOOK")
              secret      == EnvGet("DINGTALK_SECRET")
              c == Notifier("dingtalk", "send_checkin_notification", webhook_url,
                            IF secret # "" THEN secret ELSE None)
          IN  IF webhook_url = "" THEN Finish(c, rs, "False")
              ELSE DingTalk_send_markdown_body(c, rs, DingTalk_title(rs),
                                               build_checkin_report(rs, ExecutionTime), now)

dingtalk_send_checkin_notification ==
    /\ pc = "idle"
    /\ \E rs \in SendResultLists, now \in Clocks :
          LET webhook_url == EnvGet("DINGTALK_WEBHOOK")
              secret      == EnvGet("DINGTALK_SECRET")
              c == Notifier("dingtalk", "send_checkin_notification", webhook_url,
                            IF secret # "" THEN secret ELSE None)
          IN  IF webhook_url = "" THEN Finish(c, rs, "False")
              ELSE DingTalk_send_markdown_body(c, rs, DingTalk_title(rs),
                                               build_checkin_report(rs, ExecutionTime), now)

feishu_send_text ==
    /\ pc = "idle"
    /\ \E u \in Urls, s \in Secrets, now \in Clocks :
          Feishu_send_text_body(Notifier("feishu", "send_text", u, s), <<>>, "hello", now)

feishu_send_interactive_card ==
    /\ pc = "idle"
    /\ \E u \in Urls, s \in Secrets, now \in Clocks :
          Feishu_send_interactive_card_body(
              Notifier("feishu", "send_interactive_card", u, s), <<>>,
              build_checkin_card(<<>>, ExecutionTime), now)

feishu_send_checkin_notification ==
    /\ pc = "idle"
    /\ \E rs \in SendResultLists, now \in Clocks :
          LET webhook_url == EnvGet("FEISHU_WEBHOOK")
              secret      == EnvGet("FEISHU_SECRET")
              c == Notifier("feishu", "send_checkin_notification", webhook_url,
                            IF secret # "" THEN secret ELSE None)
          IN  IF webhook_url = "" THEN Finish(c, rs, "False")
              ELSE Feishu_send_interactive_card_body(
                       c, rs, build_checkin_card(rs, ExecutionTime), now)

(***************************************************************************)
(* What comes back for a POST: requests.post raises (connection error,     *)
(* timeout), or a response arrives whose body is not JSON, is JSON but no  *)
(* object, or is an object.  A JSON value is its type and its number.      *)
(***************************************************************************)
JInt(n)  == [t |-> "int", n |-> n]
JFloat0  == [t |-> "float", n |-> 0]        \* 0.0
JFalse   == [t |-> "bool", n |-> 0]         \* false: Python False, an int equal to 0
JTrue    == [t |-> "bool", n |-> 1]
JStr0    == [t |-> "str", n |-> 0]          \* "0"
JNull    == [t |-> "null", n |-> 0]         \* null: Python None

StatusValues == {JInt(0), JInt(1), JInt(-1), JFloat0, JFalse, JTrue, JStr0, JNull}

\* the response objects: every status value under one key, with the other
\* key absent, zero or one
JsonObjects ==
    { [errcode |-> v] : v \in StatusValues } \cup { [code |-> v] : v \in StatusValues }
    \cup { [errcode |-> v, code |-> w] : v \in StatusValues, w \in {JInt(0), JInt(1)} }
    \cup { [errcode |-> w, code |-> v] : v \in StatusValues, w \in {JInt(0), JInt(1)} }
    \cup { EmptyDict }

Outcomes ==
    { [kind |-> "connection_error"], [kind |-> "timeout"],
      [kind |-> "not_json"], [kind |-> "json_array"] }
    \cup { [kind |-> "json_object", body |-> b] : b \in JsonObjects }

\* dict.get(key): None when the key is absent
DictGet(d, key) == IF key \in DOMAIN d THEN d[key] ELSE JNull

\* Python's  value == 0 : numbers compare by value (bool is an int), a str
\* or None is never equal to a number
PyEqualsInt(v, k) == v.t \in {"int", "float", "bool"} /\ v.n = k

\* faulty variant: `if not result.get(key)` in place of `== 0`
SendResult_falsy(o, key) ==
    IF o.kind = "json_object" /\ (DictGet(o.body, key).n = 0 /\ DictGet(o.body, key).t # "str")
    THEN "True" ELSE "False"

\* the rest of _send (lines 136-146 / 73-81): every exception gives False
SendResult(o, key) ==
    IF o.kind \in {"connection_error", "timeout"} THEN "False"    \* requests.post raised
    ELSE IF o.kind = "not_json" THEN "False"                       \* response.json() raised
    ELSE IF o.kind = "json_array" THEN "False"                     \* no attribute 'get'
    ELSE IF PyEqualsInt(DictGet(o.body, key), 0) THEN "True"
    ELSE "False"

Receive(o, key) ==
    /\ response' = o
    /\ ret' = SendResult(o, key)
    /\ pc' = "done"
    /\ UNCHANGED <<requests, environ, call, request, posts, results, quotaVars, reportVars>>

dingtalk_send_response ==
    /\ pc = "posting" /\ call.provider = "dingtalk"
    /\ \E o \in Outcomes : Receive(o, "errcode")

feishu_send_response ==
    /\ pc = "posting" /\ call.provider = "feishu"
    /\ \E o \in Outcomes : Receive(o, "code")

\* the caller has the result (or the exception); the next call may start
Return ==
    /\ pc = "done"
    /\ pc' = "idle"
    /\ call' = NoCall /\ request' = NoRequest /\ posts' = 0
    /\ response' = NoResponse /\ ret' = "none" /\ results' = <<>>
    /\ UNCHANGED <<requests, environ, quotaVars, reportVars>>

EnvWebhooks == {None, "", WebhookUrl}
EnvSecrets  == {None, "", GoodSecret, BadSecret}

Init ==
    /\ requests \in BOOLEAN
    /\ environ \in [DINGTALK_WEBHOOK : EnvWebhooks, DINGTALK_SECRET : EnvSecrets,
                    FEISHU_WEBHOOK : EnvWebhooks, FEISHU_SECRET : EnvSecrets]
    /\ pc = "idle" /\ call = NoCall /\ request = NoRequest /\ posts = 0
    /\ response = NoResponse /\ ret = "none"
    /\ results = <<>> /\ ReportAtRest /\ QuotaAtRest

Next ==
    \/ dingtalk_send_text
    \/ dingtalk_send_markdown
    \/ dingtalk_send_checkin_notification
    \/ feishu_send_text
    \/ feishu_send_interactive_card
    \/ feishu_send_checkin_notification
    \/ dingtalk_send_response
    \/ feishu_send_response
    \/ Return

Spec == Init /\ [][Next]_vars

(***************************************************************************)
(* Claims about the send operations (Spec).                                *)
(***************************************************************************)
Finished == pc = "done"

Faults == {"connection_error", "timeout", "not_json", "json_array"}

\* C1: no exception escapes a send call of either provider; when the webhook
\* request ends in a connection error, a timeout, a body that is not JSON or
\* a JSON body that is no object, the call returns False.
C1_NoExceptionEscapes ==
    /\ ret # "raised"
    /\ (Finished /\ response.kind \in Faults) => ret = "False"

StatusKey == IF call.provider = "dingtalk" THEN "errcode" ELSE "code"

\* the JSON values Python's == holds equal to 0: 0, 0.0 and false
EqualToZero == {JInt(0), JFloat0, JFalse}

\* C2: a send call returns True iff the POST completed, the body parsed as a
\* JSON object and its status field (errcode for DingTalk, code for Feishu)
\* equals 0; any other value, or an absent field, gives False.
C2_TrueIffStatusZero ==
    Finished =>
        ( ret = "True" <=>
            /\ posts = 1
            /\ response.kind = "json_object"
            /\ StatusKey \in DOMAIN response.body
            /\ response.body[StatusKey] \in EqualToZero )

\* Feishu answers {"code": 0} without errcode, and the call returns True
C2_Witness ==
    /\ Finished /\ call.provider = "feishu" /\ ret = "True"
    /\ response.kind = "json_object" /\ response.body = [code |-> JInt(0)]

WebhookVariable == IF call.provider = "dingtalk" THEN "DINGTALK_WEBHOOK" ELSE "FEISHU_WEBHOOK"
SecretVariable  == IF call.provider = "dingtalk" THEN "DINGTALK_SECRET" ELSE "FEISHU_SECRET"

Started == pc # "idle"

\* C3: send_checkin_notification issues no POST and returns False when the
\* provider's webhook variable is unset or empty; every send operation issues
\* no POST and returns False when requests is unavailable; a POST is issued
\* only with a configured URL and the library available.
C3_NoPostWithoutConfig ==
    /\ (Started /\ call.op = "send_checkin_notification"
          /\ environ[WebhookVariable] \in {None, ""}) =>
            /\ posts = 0 /\ request = NoRequest
            /\ Finished /\ ret = "False"
    /\ (Started /\ ~requests) =>
            /\ posts = 0 /\ request = NoRequest
            /\ Finished /\ ret = "False"
    /\ posts > 0 =>
            /\ requests
            /\ call.webhook_url # ""
            /\ call.op = "send_checkin_notification" =>
                  environ[WebhookVariable] = call.webhook_url

\* DingTalk's send_checkin_notification skipped for an unset webhook
\* variable while requests is available
C3_Witness ==
    /\ Finished /\ call.provider = "dingtalk" /\ call.op = "send_checkin_notification"
    /\ environ.DINGTALK_WEBHOOK = None /\ environ.FEISHU_WEBHOOK = WebhookUrl
    /\ requests /\ posts = 0 /\ ret = "False"

\* C4: one invocation of a send operation issues at most one POST, whatever
\* its outcome, and terminates with a boolean result.
C4_OnePostThenBoolean ==
    /\ posts <= 1
    /\ Finished => ret \in {"True", "False"}

\* the part of C4 about retries alone: never a second POST in one invocation
C4_AtMostOnePost == posts <= 1

HasSecret(x) == x # None /\ x # ""

SignedUrl(url, webhook_url) ==
    /\ Len(url) = 5
    /\ url[1] = webhook_url /\ url[2] = "&timestamp=" /\ url[4] = "&sign="

AuthFields == {"timestamp", "sign"}

\* C5: DingTalk posts to the webhook URL unchanged without a secret and to
\* the URL extended with timestamp and sign with one; Feishu's payload has
\* the top-level fields timestamp and sign iff a secret is set, and its URL
\* is always the webhook URL unchanged; in send_checkin_notification an
\* unset or empty secret variable is no secret.
C5_SignedOnlyWithSecret ==
    posts > 0 =>
        /\ call.provider = "dingtalk" =>
              /\ ~HasSecret(call.secret) => request.url = <<call.webhook_url>>
              /\ HasSecret(call.secret) => SignedUrl(request.url, call.webhook_url)
              /\ AuthFields \cap DOMAIN request.payload = {}
        /\ call.provider = "feishu" =>
              /\ request.url = <<call.webhook_url>>
              /\ ~HasSecret(call.secret) => AuthFields \cap DOMAIN request.payload = {}
              /\ HasSecret(call.secret) => AuthFields \subseteq DOMAIN request.payload
        /\ call.op = "send_checkin_notification" =>
              /\ call.webhook_url = environ[WebhookVariable]
              /\ HasSecret(environ[SecretVariable]) => call.secret = environ[SecretVariable]
              /\ ~HasSecret(environ[SecretVariable]) => ~HasSecret(call.secret)

\* Feishu's send_checkin_notification with FEISHU_SECRET set: signed payload
C5_Witness ==
    /\ pc = "posting" /\ call.provider = "feishu"
    /\ call.op = "send_checkin_notification"
    /\ environ.FEISHU_SECRET = GoodSecret
    /\ AuthFields \subseteq DOMAIN request.payload
    /\ request.url = <<WebhookUrl>>

(***************************************************************************)
(* Claims about format_quota (SpecQuota).                                  *)
(***************************************************************************)
QuotaComputed == fq_dingtalk # NotComputed

BothQuota(text) == fq_dingtalk = text /\ fq_feishu = text

\* C6 as stated: format_quota(500000) = "0.50M", format_quota(1500) = "1.50K"
\* and format_quota(999) = "999", in both modules.
C6_AsStated ==
    QuotaComputed =>
        /\ fq_in = 500000 => BothQuota("0.50M")
        /\ fq_in = 1500 => BothQuota("1.50K")
        /\ fq_in = 999 => BothQuota("999")

\* C6 amended: format_quota(500000) = "500.00K" (500000 is below the M band),
\* format_quota(1500) = "1.50K" and format_quota(999) = "999", in both modules.
C6_Examples ==
    QuotaComputed =>
        /\ fq_in = 500000 => BothQuota("500.00K")
        /\ fq_in = 1500 => BothQuota("1.50K")
        /\ fq_in = 999 => BothQuota("999")

C6_Witness == fq_in = 500000 /\ fq_dingtalk = "500.00K" /\ fq_feishu = "500.00K"

\* v / d rounded to two decimals in exact arithmetic, as hundredths
HalfUp(v, d) ==
    LET u == d \div 100 IN IF 2 * (v % u) >= u THEN v \div u + 1 ELSE v \div u

HalfEven(v, d) ==
    LET u == d \div 100
        q == v \div u
    IN  IF 2 * (v % u) > u \/ (2 * (v % u) = u /\ q % 2 = 1) THEN q + 1 ELSE q

Abs(n) == IF n < 0 THEN -n ELSE n

\* the hundredths within half a hundredth of v / d
Nearest(v, d) ==
    LET u == d \div 100 IN {h \in {v \div u, v \div u + 1} : 2 * Abs(h * u - v) <= u}

Band(v) == IF v >= 1000000 THEN "M" ELSE IF v >= 1000 THEN "K" ELSE "plain"

Divisor(v) == IF v >= 1000000 THEN 1000000 ELSE 1000

Indices(seq) == DOMAIN seq

IsSuccess(r) == r.success = TRUE

SuccessCount == Cardinality({i \in Indices(results) : IsSuccess(results[i])})
FailCount    == Cardinality({i \in Indices(results) : ~IsSuccess(results[i])})

LinesOf(kinds) == SelectSeq(report, LAMBDA l : l[1] \in kinds)

UpperChar(c) ==
    CASE c = "s" -> "S" [] c = "e" -> "E" [] c = "i" -> "I"
      [] c = "o" -> "O" [] c = "n" -> "N" [] OTHER -> c

\* the message holds the keyword in any mix of upper and lower case
HasSessionAnyCase(m) ==
    \E i \in 1 .. (Len(m) - 6) :
        \A j \in 1 .. 7 : m[i + j - 1] \in {KW_session[j], UpperChar(KW_session[j])}

HasPair(m, a, b) == \E i \in 1 .. (Len(m) - 1) : m[i] = a /\ m[i + 1] = b

\* the claim's condition on a failure record
ClaimExpired(r) ==
    \/ ("session_expired" \in DOMAIN r /\ r.session_expired = TRUE)
    \/ ("message" \in DOMAIN r /\ HasSessionAnyCase(r.message))
    \/ ("message" \in DOMAIN r /\ HasPair(r.message, "ren", "zheng"))
    \/ ("message" \in DOMAIN r /\ HasPair(r.message, "guo", "qi"))

Marked(text) == Len(text) >= 2 /\ text[1] = "WARN" /\ text[2] = " "

HasFooter == LinesOf({"session_warning"}) # <<>>

FailedRecords == SelectSeq(results, LAMBDA r : ~IsSuccess(r))

\* C8: a failure row carries the warning marker iff the record has a truthy
\* session_expired flag or its message contains "session" in any case or one
\* of the two CJK keywords; the footer is there iff some failure row is
\* marked; success rows are never marked.
C8_MarkerAndFooter ==
    report # NoReport =>
        LET rows == LinesOf({"fail_row"})
            oks  == LinesOf({"success_row"})
        IN  /\ Len(rows) = Len(FailedRecords)
            /\ \A i \in Indices(rows) : Marked(rows[i][3]) <=> ClaimExpired(FailedRecords[i])
            /\ HasFooter <=> \E i \in Indices(rows) : Marked(rows[i][3])
            /\ \A i \in Indices(oks) : oks[i][4][1] = "text" => ~Marked(oks[i][4][2])
            /\ FailCount = 0 => ~HasFooter

\* a marked row with its footer, next to an unmarked failure row
C8_Witness ==
    /\ report # NoReport
    /\ HasFooter
    /\ \E i, j \in Indices(LinesOf({"fail_row"})) :
          /\ Marked(LinesOf({"fail_row"})[i][3])
          /\ ~Marked(LinesOf({"fail_row"})[j][3])
    /\ SuccessCount > 0

SummaryKinds == {"summary_all_success", "summary_all_fail", "summary_mixed"}

\* C9: S + F is the number of records; exactly one summary line; all-success
\* wording when F = 0, all-failure when S = 0 and F > 0, "success S, failure
\* F" when both are positive; the section headings show S and F.
C9_SummaryLine ==
    report # NoReport =>
        LET sums == LinesOf(SummaryKinds)
            okH  == LinesOf({"success_heading"})
            badH == LinesOf({"fail_heading"})
        IN  /\ SuccessCount + FailCount = Len(results)
            /\ Len(sums) = 1
            /\ FailCount = 0 => sums[1][1] = "summary_all_success"
            /\ (SuccessCount = 0 /\ FailCount > 0) => sums[1][1] = "summary_all_fail"
            /\ (SuccessCount > 0 /\ FailCount > 0) =>
                  sums[1] = <<"summary_mixed", SuccessCount, FailCount>>
            /\ Len(okH) = (IF SuccessCount > 0 THEN 1 ELSE 0)
            /\ Len(badH) = (IF FailCount > 0 THEN 1 ELSE 0)
            /\ \A i \in Indices(okH) : okH[i][2] = SuccessCount
            /\ \A i \in Indices(badH) : badH[i][2] = FailCount
            /\ Len(LinesOf({"success_row"})) = SuccessCount
            /\ Len(LinesOf({"fail_row"})) = FailCount

\* two successes and one failure, as in the module's own test data
C9_Witness ==
    /\ report # NoReport
    /\ SuccessCount = 2 /\ FailCount = 1
    /\ LinesOf(SummaryKinds) = << <<"summary_mixed", 2, 1>> >>

AllSuccess == \A i \in Indices(results) : IsSuccess(results[i])
AllFailure == \A i \in Indices(results) : ~IsSuccess(results[i])

TitleCase(c) ==
    CASE c.header.title.content[1] = "title_all_success" -> "green"
      [] c.header.title.content[1] = "title_all_fail" -> "red"
      [] c.header.title.content[1] = "title_mixed" -> "orange"

\* C10: the header is green when all records are successes, red when all
\* records are failures, orange when the list mixes both (the empty list, which
\* has no failure, is green like every list without one), and the title's
\* wording selects the same one of the three cases as the colour.
C10_HeaderColour ==
    card # NoCard =>
        /\ (results # <<>> /\ AllSuccess) => card.header.template = "green"
        /\ (results # <<>> /\ AllFailure) => card.header.template = "red"
        /\ (~AllSuccess /\ ~AllFailure) => card.header.template = "orange"
        /\ results = <<>> => card.header.template = "green"
        /\ TitleCase(card) = card.header.template
        /\ card.header.title.content[1] = "title_mixed" =>
              card.header.title.content = <<"title_mixed", SuccessCount, FailCount>>

\* a mixed list: an orange header with the mixed wording
C10_Witness ==
    /\ card # NoCard
    /\ SuccessCount = 2 /\ FailCount = 1
    /\ card.header.template = "orange"
    /\ card.header.title.content = <<"title_mixed", 2, 1>>

====
